---------------------------- MODULE Spec2Model ----------------------------
(***************************************************************************)
(* A model of the Flappy Bird state engine: the seeded RNG, the collision  *)
(* resolver, the three reducers (tick, flapR, spawnPipe), the fold of      *)
(* state$ and the start/restart pipeline with its ghost store.             *)
(*                                                                         *)
(* Numbers.  The program computes in IEEE doubles.  Positions are held     *)
(* here in 1/625 px and velocities in 1/5 px/s: on that grid one tick of   *)
(* gravity (1200 * 0.016 = 19.2 px/s), one tick of flight (vy * 0.016 px)  *)
(* and one tick of pipe motion (150 * 0.016 = 2.4 px) are all whole        *)
(* numbers, so the physics is exact rational arithmetic.  The only value   *)
(* that does not lie on the grid is the bounce magnitude, which is         *)
(* truncated to the velocity grid.  RNG.hash is computed with the          *)
(* rounding of the double product it performs.                             *)
(***************************************************************************)
EXTENDS Integers, Sequences, FiniteSets, TLC

VARIABLES
    schedule,     \* the parsed CSV: the spawn schedule (fixed per page load)
    running,      \* an inner state$ subscription exists
    clicked,      \* click$ has taken its one mousedown
    state,        \* the accumulator of scan
    clock,        \* emissions of interval(TICK_RATE_MS) in this subscription
    timers,       \* pending timer(spec.timeMs) of spawnReducers$
    ghostStore,   \* the value of ghostStore$
    ghostImgs,    \* the ghost images kept in the closure of render()
    lastEvt       \* history: the event that produced the current state

vars == <<schedule, running, clicked, state, clock, timers, ghostStore,
          ghostImgs, lastEvt>>

-----------------------------------------------------------------------------
(* Units *)

Scale == 25 * 25      \* position units per pixel
VScale == 1 * 5       \* velocity units per px/s

(* Constants *)

CANVAS_WIDTH == 600
CANVAS_HEIGHT == 400
WIDTH == 42
HEIGHT == 30
PIPE_WIDTH == 50
PIPE_SPEED_PX_S == 150
TICK_RATE_MS == 16
GRAVITY == 1200
FLAP_VELOCITY == -350
TERMINAL_VEL == 600
BOUNCE_MIN == 220
BOUNCE_MAX == 420

Max(a, b) == IF a >= b THEN a ELSE b
Min(a, b) == IF a <= b THEN a ELSE b
Abs(a) == IF a >= 0 THEN a ELSE -a

\* velocity gained in one tick: GRAVITY * dt
GravityDt == (GRAVITY * TICK_RATE_MS * VScale) \div 1000
\* distance flown in one tick at velocity vy: vy * dt
FlightDt(vy) == (vy * TICK_RATE_MS * Scale) \div (1000 * VScale)
\* distance a pipe moves in one tick: PIPE_SPEED_PX_S * dt
PipeDt == (PIPE_SPEED_PX_S * TICK_RATE_MS * Scale) \div 1000

-----------------------------------------------------------------------------
(* RNG: numbers up to 2^62 are held as five limbs of 15 bits, least        *)
(* significant first.                                                      *)

Limb == 32768
RngA == <<20077, 908, 1>>      \* a = 1103515245 = 1*2^30 + 908*2^15 + 20077
RngC == 12345
RngMm1 == 2147483647           \* m - 1 = 2^31 - 1

RECURSIVE BitLen(_)
BitLen(x) == IF x = 0 THEN 0 ELSE 1 + BitLen(x \div 2)

RECURSIVE Pow2(_)
Pow2(e) == IF e = 0 THEN 1 ELSE 2 * Pow2(e - 1)

\* one step of carry propagation: <<limb, carry into the next limb>>
Carry(x, cin) == <<(x + cin) % Limb, (x + cin) \div Limb>>

\* carry propagation over five limbs
Norm3(c, a, b, k) == <<a, b, k[1], (c[4] + k[2]) % Limb,
                       c[5] + (c[4] + k[2]) \div Limb>>
Norm2(c, a, k) == Norm3(c, a, k[1], Carry(c[3], k[2]))
Norm1(c, k) == Norm2(c, k[1], Carry(c[2], k[2]))
Norm(c) == Norm1(c, Carry(c[1], 0))

\* the number of low bits a double cannot hold of the number d
DropBits(d) ==
    IF d[5] > 0 THEN 7 + BitLen(d[5])
    ELSE IF d[4] > 0 THEN Max(0, BitLen(d[4]) - 8)
    ELSE 0

\* d with its low limb rounded to a multiple of p = 2^e, ties to even
RoundTo(d, p) ==
    IF 2 * (d[1] % p) > p \/ (2 * (d[1] % p) = p /\ (d[1] \div p) % 2 = 1)
    THEN Norm(<<(d[1] \div p + 1) * p, d[2], d[3], d[4], d[5]>>)
    ELSE <<(d[1] \div p) * p, d[2], d[3], d[4], d[5]>>

\* round to the nearest double
RoundDouble(d) == RoundTo(d, Pow2(DropBits(d)))

\* the limbs of a seed
Limbs(seed) == <<seed % Limb, (seed \div Limb) % Limb, seed \div (Limb * Limb)>>

\* RNG.a * seed, as a double
MulLimbs(s) ==
    RoundDouble(Norm(<<RngA[1] * s[1],
                       RngA[1] * s[2] + RngA[2] * s[1],
                       RngA[1] * s[3] + RngA[2] * s[2] + RngA[3] * s[1],
                       RngA[2] * s[3] + RngA[3] * s[2],
                       RngA[3] * s[3]>>))
MulA(seed) == MulLimbs(Limbs(seed))

\* d + RNG.c, as a double
AddC(d) == RoundDouble(Norm(<<d[1] + RngC, d[2], d[3], d[4], d[5]>>))

\* d % RNG.m
ModM(d) == (d[3] % 2) * Limb * Limb + d[2] * Limb + d[1]

\* hash = (a * seed + c) % m
hash(seed) == ModM(AddC(MulA(seed)))

\* floor(K * h / (m - 1)) for 0 <= h <= m - 1, without leaving 32 bits:
\* with t = (m - 1) \div K + 1 and h = k * t + rem it is k or k + 1
ScaleQuot(K, k, rem) ==
    IF (K * rem - RngMm1) + k * (K - (RngMm1 % K)) >= 0 THEN k + 1 ELSE k
ScaleDiv(h, K, t) == ScaleQuot(K, h \div t, h % t)
ScaleFloor(h, K) == ScaleDiv(h, K, RngMm1 \div K + 1)

\* rand01 and randInRange for the hash h, the value on the velocity grid:
\* floor(VScale * (lo + h / (m - 1) * (hi - lo)))
randFromHash(h, lo, hi) ==
    [nextSeed |-> h, value |-> VScale * lo + ScaleFloor(h, VScale * (hi - lo))]

randInRange(seed, lo, hi) == randFromHash(hash(seed), lo, hi)

-----------------------------------------------------------------------------
(* Collision detection utilities *)

birdHitbox(x, y) ==
    [left   |-> x - (WIDTH * Scale) \div 2,
     right  |-> x + (WIDTH * Scale) \div 2,
     top    |-> y - (HEIGHT * Scale) \div 2,
     bottom |-> y + (HEIGHT * Scale) \div 2]

pipeTopHitbox(p) ==
    [left   |-> p.x,
     right  |-> p.x + PIPE_WIDTH * Scale,
     top    |-> 0,
     bottom |-> p.gapY - p.gapH \div 2]

pipeBottomHitbox(p) ==
    [left   |-> p.x,
     right  |-> p.x + PIPE_WIDTH * Scale,
     top    |-> p.gapY + p.gapH \div 2,
     bottom |-> CANVAS_HEIGHT * Scale]

overlaps(a, b) ==
    /\ a.left < b.right
    /\ a.right > b.left
    /\ a.top < b.bottom
    /\ a.bottom > b.top

-----------------------------------------------------------------------------
(* Initial state and reducers *)

\* mutant: state$ does not inject the ghosts it was given
initialStateNoGhosts(seed, planned, ghosts) ==
    [timeMs |-> 0,
     gameEnd |-> FALSE,
     bird |-> [pos |-> [x |-> (CANVAS_WIDTH * Scale * 3) \div 10,
                        y |-> (CANVAS_HEIGHT * Scale) \div 2],
               velY |-> 0],
     pipes |-> <<>>,
     lives |-> 3,
     score |-> 0,
     nextId |-> 1,
     seed |-> seed,
     totalPipesPlanned |-> planned,
     ghosts |-> <<>>,
     trace |-> <<>>]

\* the initialState object with the fields state$ overrides
initialState(seed, planned, ghosts) ==
    [timeMs |-> 0,
     gameEnd |-> FALSE,
     bird |-> [pos |-> [x |-> (CANVAS_WIDTH * Scale * 3) \div 10,
                        y |-> (CANVAS_HEIGHT * Scale) \div 2],
               velY |-> 0],
     pipes |-> <<>>,
     lives |-> 3,
     score |-> 0,
     nextId |-> 1,
     seed |-> seed,
     totalPipesPlanned |-> planned,
     ghosts |-> ghosts,
     trace |-> <<>>]

minY == (HEIGHT * Scale) \div 2
maxY == CANVAS_HEIGHT * Scale - (HEIGHT * Scale) \div 2

\* mutant: the bounce is signed towards the surface
bounceOfTowards(r, dir) == [vy |-> -dir * Abs(r.value), seed |-> r.nextSeed]

\* the random bounce of handleCollisions
bounceOf(r, dir) == [vy |-> dir * Abs(r.value), seed |-> r.nextSeed]
bounce(s, dir) == bounceOf(randInRange(s.seed, BOUNCE_MIN, BOUNCE_MAX), dir)

\* mutant: the velocity is not clamped
clampVelNone(v) == v

\* Math.max(-TERMINAL_VEL, Math.min(TERMINAL_VEL, v))
clampVel(v) == Max(-TERMINAL_VEL * VScale, Min(TERMINAL_VEL * VScale, v))

\* the outcome of a hit: the snapped position and the bounce b
hitOutcome(y, b, collided) ==
    [y |-> y, vy |-> b.vy, seed |-> b.seed, collided |-> collided]

\* the four collision tests at the clamped position yClamped
hitTests(s, yNextRaw, birdRect) ==
    [top |-> yNextRaw < minY,
     bottom |-> yNextRaw > maxY,
     pipeTop |-> \E i \in 1..Len(s.pipes) :
                     overlaps(birdRect, pipeTopHitbox(s.pipes[i])),
     pipeBottom |-> \E i \in 1..Len(s.pipes) :
                        overlaps(birdRect, pipeBottomHitbox(s.pipes[i]))]

\* mutant: the pipe branches are taken before the boundary branches
resolvePipesFirst(s, vy, yClamped, hit, collided) ==
    IF hit.pipeTop THEN
        hitOutcome(Min(yClamped + Scale, maxY), bounce(s, 1), collided)
    ELSE IF hit.pipeBottom THEN
        hitOutcome(Max(yClamped - Scale, minY), bounce(s, -1), collided)
    ELSE IF hit.top THEN hitOutcome(minY, bounce(s, 1), collided)
    ELSE IF hit.bottom THEN hitOutcome(maxY, bounce(s, -1), collided)
    ELSE
        [y |-> yClamped,
         vy |-> IF (yClamped = minY /\ vy < 0) \/ (yClamped = maxY /\ vy > 0)
                THEN 0 ELSE vy,
         seed |-> s.seed,
         collided |-> collided]

\* mutant: the one-pixel nudge of a pipe hit is not kept inside the screen
resolveNudgeFree(s, vy, yClamped, hit, collided) ==
    IF hit.top THEN hitOutcome(minY, bounce(s, 1), collided)
    ELSE IF hit.bottom THEN hitOutcome(maxY, bounce(s, -1), collided)
    ELSE IF hit.pipeTop THEN
        hitOutcome(yClamped + Scale, bounce(s, 1), collided)
    ELSE IF hit.pipeBottom THEN
        hitOutcome(yClamped - Scale, bounce(s, -1), collided)
    ELSE
        [y |-> yClamped,
         vy |-> IF (yClamped = minY /\ vy < 0) \/ (yClamped = maxY /\ vy > 0)
                THEN 0 ELSE vy,
         seed |-> s.seed,
         collided |-> collided]

\* the branches of handleCollisions, in their order
resolve(s, vy, yClamped, hit, collided) ==
    IF hit.top THEN hitOutcome(minY, bounce(s, 1), collided)
    ELSE IF hit.bottom THEN hitOutcome(maxY, bounce(s, -1), collided)
    ELSE IF hit.pipeTop THEN
        hitOutcome(Min(yClamped + Scale, maxY), bounce(s, 1), collided)
    ELSE IF hit.pipeBottom THEN
        hitOutcome(Max(yClamped - Scale, minY), bounce(s, -1), collided)
    ELSE
        [y |-> yClamped,
         vy |-> IF (yClamped = minY /\ vy < 0) \/ (yClamped = maxY /\ vy > 0)
                THEN 0 ELSE vy,
         seed |-> s.seed,
         collided |-> collided]

collide3(s, vy, yClamped, hit) ==
    resolve(s, vy, yClamped, hit,
            hit.top \/ hit.bottom \/ hit.pipeTop \/ hit.pipeBottom)
collide2(s, vy, yNextRaw, yClamped) ==
    collide3(s, vy, yClamped,
             hitTests(s, yNextRaw, birdHitbox(s.bird.pos.x, yClamped)))
collide1(s, vy, yNextRaw) ==
    collide2(s, vy, yNextRaw, Max(minY, Min(maxY, yNextRaw)))
collide(s, vy) == collide1(s, vy, s.bird.pos.y + FlightDt(vy))

handleCollisions(s) == collide(s, clampVel(s.bird.velY + GravityDt))

\* mutant: the new pipe is put in front of the list
spawnPipeFront(spec, s) ==
    LET p == [id |-> s.nextId,
              x |-> CANVAS_WIDTH * Scale,
              gapY |-> spec.gapY,
              gapH |-> spec.gapH,
              passed |-> FALSE]
    IN  [s EXCEPT !.nextId = s.nextId + 1, !.pipes = <<p>> \o s.pipes]

\* mutant: the id counter is not advanced
spawnPipeKeepId(spec, s) ==
    LET p == [id |-> s.nextId,
              x |-> CANVAS_WIDTH * Scale,
              gapY |-> spec.gapY,
              gapH |-> spec.gapH,
              passed |-> FALSE]
    IN  [s EXCEPT !.pipes = Append(s.pipes, p)]

spawnPipe(spec, s) ==
    LET p == [id |-> s.nextId,
              x |-> CANVAS_WIDTH * Scale,
              gapY |-> spec.gapY,
              gapH |-> spec.gapH,
              passed |-> FALSE]
    IN  [s EXCEPT !.nextId = s.nextId + 1, !.pipes = Append(s.pipes, p)]

\* mutant: the pipes are not moved
movedPipesStill(s) == s.pipes

\* the move-and-cull step of tick
movedPipes(s) == [i \in 1..Len(s.pipes) |->
                     [s.pipes[i] EXCEPT !.x = s.pipes[i].x - PipeDt]]
\* mutant: no pipe is culled
IsKeptAlways(p) == TRUE

IsKept(p) == p.x > -(PIPE_WIDTH * Scale)
keptPipes(s) == SelectSeq(movedPipes(s), IsKept)

\* the scoring step of tick
\* mutant: the pipe's left edge is compared, the width forgotten
IsPassedNowLeftEdge(p, birdLeft) == p.passed \/ p.x < birdLeft

IsPassedNow(p, birdLeft) == p.passed \/ p.x + PIPE_WIDTH * Scale < birdLeft
markPassed(kept, birdLeft) ==
    [i \in 1..Len(kept) |->
        IF IsPassedNow(kept[i], birdLeft)
        THEN [kept[i] EXCEPT !.passed = TRUE] ELSE kept[i]]
updatedPipes(s) ==
    markPassed(keptPipes(s), s.bird.pos.x - (WIDTH * Scale) \div 2)

prevPassed(s) ==
    {s.pipes[i].id : i \in {j \in 1..Len(s.pipes) : s.pipes[j].passed}}

\* mutant: every passed pipe is counted, also one counted before
countNewlyPassedAll(upd, prev) ==
    Cardinality({i \in 1..Len(upd) : upd[i].passed})

countNewlyPassed(upd, prev) ==
    Cardinality({i \in 1..Len(upd) : upd[i].passed /\ upd[i].id \notin prev})

newlyPassedCount(s) == countNewlyPassed(updatedPipes(s), prevPassed(s))

\* mutant: a life is lost on every tick
nextLivesAlways(s, col) == Max(0, s.lives - 1)

nextLives(s, col) == IF col.collided THEN Max(0, s.lives - 1) ELSE s.lives

\* mutant: the run ends only when the lives run out
nextGameEndLivesOnly(s, lives, pipes) == lives <= 0

\* mutant: the run completes as soon as the screen is clear
nextGameEndCleared(s, lives, pipes) == lives <= 0 \/ Len(pipes) = 0

nextGameEnd(s, lives, pipes) ==
    lives <= 0 \/ (s.nextId - 1 >= s.totalPipesPlanned /\ Len(pipes) = 0)

\* mutant: tick does not persist the seed of the collision outcome
nextStateKeepSeed(s, col, lives, pipes) ==
    [s EXCEPT
        !.timeMs = s.timeMs + TICK_RATE_MS,
        !.bird = [pos |-> [x |-> s.bird.pos.x, y |-> col.y], velY |-> col.vy],
        !.pipes = pipes,
        !.lives = lives,
        !.gameEnd = nextGameEnd(s, lives, pipes),
        !.score = s.score + newlyPassedCount(s),
        !.trace = Append(s.trace, [x |-> s.bird.pos.x, y |-> col.y]),
        !.ghosts = s.ghosts]

\* mutant: the trace records the position before the tick
nextStateOldPos(s, col, lives, pipes) ==
    [s EXCEPT
        !.timeMs = s.timeMs + TICK_RATE_MS,
        !.bird = [pos |-> [x |-> s.bird.pos.x, y |-> col.y], velY |-> col.vy],
        !.pipes = pipes,
        !.seed = col.seed,
        !.lives = lives,
        !.gameEnd = nextGameEnd(s, lives, pipes),
        !.score = s.score + newlyPassedCount(s),
        !.trace = Append(s.trace, s.bird.pos),
        !.ghosts = s.ghosts]

\* the state tick returns for the collision outcome col and the pipes
nextState(s, col, lives, pipes) ==
    [s EXCEPT
        !.timeMs = s.timeMs + TICK_RATE_MS,
        !.bird = [pos |-> [x |-> s.bird.pos.x, y |-> col.y], velY |-> col.vy],
        !.pipes = pipes,
        !.seed = col.seed,
        !.lives = lives,
        !.gameEnd = nextGameEnd(s, lives, pipes),
        !.score = s.score + newlyPassedCount(s),
        !.trace = Append(s.trace, [x |-> s.bird.pos.x, y |-> col.y]),
        !.ghosts = s.ghosts]

tickWith(s, col) == nextState(s, col, nextLives(s, col), updatedPipes(s))

\* mutant: tick has no gameEnd guard
tickUnguarded(s) == tickWith(s, handleCollisions(s))

tick(s) == IF s.gameEnd THEN s ELSE tickWith(s, handleCollisions(s))

\* mutant: a flap adds its impulse to the current velocity
flapRImpulse(s) ==
    [s EXCEPT !.bird = [s.bird EXCEPT !.velY = @ + FLAP_VELOCITY * VScale]]

flapR(s) == [s EXCEPT !.bird = [s.bird EXCEPT !.velY = FLAP_VELOCITY * VScale]]

-----------------------------------------------------------------------------
(* Bounds of the model *)

MaxClock == 300        \* interval emissions delivered to one run
FlapEvery == 36        \* a live run takes Space presses every FlapEvery emissions,
EagerFlaps == 4        \* and twice as often for its first EagerFlaps presses
MaxGhosts == 3         \* events stop once the store holds this many traces
MaxStartClock == 2     \* a start trigger comes within this many emissions of the last

\* seeds Math.random() may give a run
Seeds == {1, 20240917}

\* a row "gap_y,gap_height,time" of the CSV as parseMapCsv returns it, the
\* fractions given in hundredths and the time in milliseconds
Row(yPct, hPct, ms) ==
    [gapY |-> (yPct * CANVAS_HEIGHT * Scale) \div 100,
     gapH |-> (hPct * CANVAS_HEIGHT * Scale) \div 100,
     timeMs |-> ms]

\* spawn schedules parseMapCsv may return: a header alone, one pipe with a
\* wide centred gap, and two pipes the first with a narrower, higher gap
Schedules == {<<>>,
              <<Row(50, 50, 320)>>,
              <<Row(40, 40, 0), Row(50, 50, 2000)>>}

-----------------------------------------------------------------------------
(* The pipeline: csv$ -> merge(click$, restart$) -> switchMap(state$) -> tap *)

\* timers of spawnReducers$, one per row of the schedule
subscribeTimers == {[idx |-> i, stale |-> FALSE] : i \in 1..Len(schedule)}

\* mutant: the previous inner observable stays subscribed (mergeMap)
unsubscribeNot(ts) == {[t EXCEPT !.stale = TRUE] : t \in ts}

\* switchMap unsubscribes the previous inner observable: its timers are gone
unsubscribe(ts) == {}

\* the tap on every emitted state
tap(s, store) == IF s.gameEnd THEN Append(store, s.trace) ELSE store

\* a ghost image as makeRenderGhosts creates it: hidden, x and y not set
\* (an SVG image without these attributes lies at 0, 0)
newGhostImg == [x |-> 0, y |-> 0, visibility |-> "hidden"]

\* mutant: the frame index is rounded to the nearest tick
ghostIdxRounded(timeMs) == (timeMs + TICK_RATE_MS \div 2) \div TICK_RATE_MS

\* Math.floor(timeMs / TICK_RATE_MS)
ghostIdx(timeMs) == timeMs \div TICK_RATE_MS

\* one ghost of the forEach: positioned on its trace and shown, or hidden
\* (trace[idx] of the source is trace[idx + 1] of a sequence)
drawGhost(trace, idx, img) ==
    IF Len(trace) > 0 /\ idx < Len(trace)
    THEN [x |-> trace[idx + 1].x - (WIDTH * Scale) \div 2,
          y |-> trace[idx + 1].y - (HEIGHT * Scale) \div 2,
          visibility |-> "visible"]
    ELSE [img EXCEPT !.visibility = "hidden"]

\* the images after the missing ones were created
grownImgs(n, imgs) == imgs \o [k \in 1..Max(0, n - Len(imgs)) |-> newGhostImg]

drawGrown(ghosts, idx, imgs) ==
    [i \in 1..Len(imgs) |->
        IF i <= Len(ghosts) THEN drawGhost(ghosts[i], idx, imgs[i]) ELSE imgs[i]]

\* drawGhosts(s.ghosts, s.timeMs) of render
drawGhosts(ghosts, timeMs, imgs) ==
    drawGrown(ghosts, ghostIdx(timeMs), grownImgs(Len(ghosts), imgs))

\* the emissions at which a live run takes a Space press
FlapClock ==
    LET eagerEnd == EagerFlaps * (FlapEvery \div 2)
    IN  IF clock <= eagerEnd THEN clock % (FlapEvery \div 2) = 0
        ELSE (clock - eagerEnd) % FlapEvery = 0

\* events are delivered while the store has room
Deliverable == running /\ (state.gameEnd => Len(ghostStore) < MaxGhosts)

Init ==
    /\ schedule \in Schedules
    /\ running = FALSE
    /\ clicked = FALSE
    /\ \E seed \in Seeds : state = initialState(seed, 0, <<>>)
    /\ clock = 0
    /\ timers = {}
    /\ ghostStore = <<>>
    /\ ghostImgs = <<>>
    /\ lastEvt = [kind |-> "none", stale |-> FALSE]

\* state$(contents, ghosts): a new fold from the seed state of scan
StartRun(kind) ==
    /\ \E seed \in Seeds :
           state' = initialState(seed, Len(schedule), ghostStore)
    /\ running' = TRUE
    /\ clock' = 0
    /\ timers' = unsubscribe(timers) \cup subscribeTimers
    /\ lastEvt' = [kind |-> kind, stale |-> FALSE]
    /\ UNCHANGED <<schedule, ghostStore, ghostImgs>>

\* start triggers are taken early in a run and while the store has room
Startable == clock <= MaxStartClock /\ Len(ghostStore) < MaxGhosts

\* click$: the first mousedown
Click ==
    /\ Startable
    /\ ~clicked
    /\ clicked' = TRUE
    /\ StartRun("click")

\* restart$: a KeyR keypress
Restart ==
    /\ Startable
    /\ StartRun("restart")
    /\ UNCHANGED clicked

\* one emission of a reducer through scan and tap to the subscribed render
Emit(next, kind, stale) ==
    /\ state' = next
    /\ ghostStore' = tap(next, ghostStore)
    /\ ghostImgs' = drawGhosts(next.ghosts, next.timeMs, ghostImgs)
    /\ lastEvt' = [kind |-> kind, stale |-> stale]

Tick ==
    /\ Deliverable
    /\ clock < MaxClock
    /\ \A t \in timers : schedule[t.idx].timeMs >= (clock + 1) * TICK_RATE_MS
    /\ clock' = clock + 1
    /\ Emit(tick(state), "tick", FALSE)
    /\ UNCHANGED <<schedule, running, clicked, timers>>

Flap ==
    /\ Deliverable
    /\ state.gameEnd \/ FlapClock
    /\ Emit(flapR(state), "flap", FALSE)
    /\ UNCHANGED <<schedule, running, clicked, clock, timers>>

Spawn ==
    /\ Deliverable
    /\ \E t \in timers :
        /\ t.stale \/ schedule[t.idx].timeMs <= (clock + 1) * TICK_RATE_MS
        /\ timers' = timers \ {t}
        /\ Emit(spawnPipe(schedule[t.idx], state), "spawn", t.stale)
    /\ UNCHANGED <<schedule, running, clicked, clock>>

Next == Click \/ Restart \/ Tick \/ Flap \/ Spawn

Spec == Init /\ [][Next]_vars

-----------------------------------------------------------------------------
(* One run that is not restarted, its ticks and spawn timers kept coming *)

MaxRunClock == 400     \* interval emissions delivered to a live run

\* interval(TICK_RATE_MS) emits to a run that has not ended
TickRun ==
    /\ running
    /\ ~state.gameEnd
    /\ clock < MaxRunClock
    /\ \A t \in timers : schedule[t.idx].timeMs >= (clock + 1) * TICK_RATE_MS
    /\ clock' = clock + 1
    /\ Emit(tick(state), "tick", FALSE)
    /\ UNCHANGED <<schedule, running, clicked, timers>>

NextRun == Click \/ TickRun \/ Flap \/ Spawn

\* what enables an emission of the interval to a live run, and what the
\* emission does to the clock: the steps of TickRun, seen on the clock alone
TickDue ==
    /\ running
    /\ ~state.gameEnd
    /\ clock < MaxRunClock
    /\ \A t \in timers : schedule[t.idx].timeMs >= (clock + 1) * TICK_RATE_MS
    /\ clock' = clock + 1

\* what enables a timer to fire, and what firing does to the pending
\* timers: the steps of Spawn, seen on the timers alone
SpawnDue ==
    /\ Deliverable
    /\ \E t \in timers :
        /\ t.stale \/ schedule[t.idx].timeMs <= (clock + 1) * TICK_RATE_MS
        /\ timers' = timers \ {t}

\* the interval goes on emitting and every timer fires
RunSpec ==
    Init /\ [][NextRun]_vars /\ WF_clock(TickDue) /\ WF_timers(SpawnDue)

-----------------------------------------------------------------------------
(* The ghost replay of render on its own: any ghost list, any time *)

MaxTraceLen == 2       \* points in a ghost trace given to render
MaxDrawGhosts == 2     \* ghost traces given to render
MaxDrawMs == 40        \* the largest timeMs given to render

SeqsUpTo(S, n) == UNION {[1..k -> S] : k \in 0..n}

\* positions a trace may hold: the bird's column, at the ceiling or the floor
TracePoints == {[x |-> (CANVAS_WIDTH * Scale * 3) \div 10, y |-> y] :
                   y \in {minY, maxY}}

GhostLists == SeqsUpTo(SeqsUpTo(TracePoints, MaxTraceLen), MaxDrawGhosts)

InitRender ==
    /\ schedule = <<>>
    /\ running = FALSE
    /\ clicked = FALSE
    /\ \E ghosts \in GhostLists : state = initialState(1, 0, ghosts)
    /\ clock = 0
    /\ timers = {}
    /\ ghostStore = <<>>
    /\ ghostImgs = <<>>
    /\ lastEvt = [kind |-> "none", stale |-> FALSE]

\* render is called with a state whose clock reads t
Draw ==
    /\ \E t \in 0..MaxDrawMs :
           /\ state' = [state EXCEPT !.timeMs = t]
           /\ ghostImgs' = drawGhosts(state.ghosts, t, ghostImgs)
    /\ lastEvt' = [kind |-> "draw", stale |-> FALSE]
    /\ UNCHANGED <<schedule, running, clicked, clock, timers, ghostStore>>

NextRender == Draw

RenderSpec == InitRender /\ [][NextRender]_vars

-----------------------------------------------------------------------------
(* The reducers on their own: scan applied to states a run can be in *)

MaxSteps == 2          \* reducers applied to a drawn state

\* the run is observed TicksRun ticks after its start
TicksRun == 271

\* a pipe spawned from the row spec, seen age ticks later
PipeAt(id, spec, age) ==
    [id |-> id,
     x |-> CANVAS_WIDTH * Scale - age * PipeDt,
     gapY |-> spec.gapY,
     gapH |-> spec.gapH,
     passed |-> CANVAS_WIDTH * Scale - age * PipeDt + PIPE_WIDTH * Scale
                    < (CANVAS_WIDTH * Scale * 3) \div 10 - (WIDTH * Scale) \div 2]

\* rows of a CSV: a gap too low for the bird at the very top, a wide centred
\* gap, and a narrow gap near the floor
GapRows == {Row(2, 4, 0), Row(50, 50, 0), Row(90, 10, 0)}

\* ages of a pipe: far right of the bird, over the bird, one tick before it
\* counts as passed, and one tick before it is culled
PipeAges == {80, 179, 204, 270}

\* the rows spawned so far, oldest first, with their ages
SpawnedRows ==
    {<<>>}
    \cup {<<[spec |-> g, age |-> a]>> : g \in GapRows, a \in PipeAges}
    \cup {<<[spec |-> g, age |-> a], [spec |-> h, age |-> b]>> :
              g \in {Row(50, 50, 0)}, h \in GapRows,
              a \in {204, 270}, b \in {80, 179}}

\* the bird: at the ceiling, half a pixel and a pixel under it, mid-screen,
\* a pixel over the floor, at the floor; just after a flap, at the top of its
\* arc, or falling at terminal velocity
BirdYs == {minY, minY + Scale \div 2, minY + Scale,
           (CANVAS_HEIGHT * Scale) \div 2, maxY - Scale, maxY}
BirdVels == {FLAP_VELOCITY * VScale,
             FLAP_VELOCITY * VScale + 18 * GravityDt,
             TERMINAL_VEL * VScale}

\* the state of a run after TicksRun ticks with these rows spawned
StateAt(seed, rows, y, v, lives) ==
    [initialState(seed, Len(rows) + 1, <<>>) EXCEPT
        !.timeMs = TicksRun * TICK_RATE_MS,
        !.bird = [pos |-> [x |-> (CANVAS_WIDTH * Scale * 3) \div 10, y |-> y],
                  velY |-> v],
        !.pipes = [i \in 1..Len(rows) |-> PipeAt(i, rows[i].spec, rows[i].age)],
        !.lives = lives,
        !.nextId = Len(rows) + 1,
        !.trace = [i \in 1..TicksRun |->
                      [x |-> (CANVAS_WIDTH * Scale * 3) \div 10,
                       y |-> IF i = TicksRun THEN y
                             ELSE (CANVAS_HEIGHT * Scale) \div 2]]]

\* the schedule that spawned the rows, and one more row due now
ScheduleOf(rows) ==
    [i \in 1..Len(rows) |->
        [rows[i].spec EXCEPT !.timeMs = (TicksRun - rows[i].age) * TICK_RATE_MS]]
    \o <<[gapY |-> (CANVAS_HEIGHT * Scale) \div 2,
          gapH |-> (CANVAS_HEIGHT * Scale) \div 4,
          timeMs |-> TicksRun * TICK_RATE_MS]>>

InitReducers ==
    /\ \E rows \in SpawnedRows :
         /\ schedule = ScheduleOf(rows)
         /\ timers = {[idx |-> Len(rows) + 1, stale |-> FALSE]}
         /\ \E seed \in Seeds, y \in BirdYs, v \in BirdVels, lives \in {1, 3} :
                state = StateAt(seed, rows, y, v, lives)
    /\ running = TRUE
    /\ clicked = TRUE
    /\ clock = 0
    /\ ghostStore = <<>>
    /\ ghostImgs = <<>>
    /\ lastEvt = [kind |-> "none", stale |-> FALSE]

\* scan applies the reducer an event source has emitted; here clock counts
\* the reducers applied
Applied == clock < MaxSteps /\ clock' = clock + 1

ApplyTick ==
    /\ Applied
    /\ Emit(tick(state), "tick", FALSE)
    /\ UNCHANGED <<schedule, running, clicked, timers>>

ApplyFlap ==
    /\ Applied
    /\ Emit(flapR(state), "flap", FALSE)
    /\ UNCHANGED <<schedule, running, clicked, timers>>

ApplySpawn ==
    /\ Applied
    /\ \E t \in timers :
        /\ timers' = timers \ {t}
        /\ Emit(spawnPipe(schedule[t.idx], state), "spawn", FALSE)
    /\ UNCHANGED <<schedule, running, clicked>>

NextReducers == ApplyTick \/ ApplyFlap \/ ApplySpawn

ReducerSpec == InitReducers /\ [][NextReducers]_vars

-----------------------------------------------------------------------------
(* Properties *)

Reducers == {"tick", "flap", "spawn"}
Starts == {"click", "restart"}

\* the step applies a reducer to the state of the run
ReducerStep == lastEvt'.kind \in Reducers
\* the step applies tick to a state that has not ended
LiveTick == lastEvt'.kind = "tick" /\ ~state.gameEnd

\* C1: once gameEnd is true, every reducer returns a state equal to its input
C1_EndedStateIsFixed ==
    [][(state.gameEnd /\ ReducerStep) => state' = state]_vars

\* C2: the store never holds two entries appended by the same run
\* (a run's ghosts are the store as it was when the run began)
C2_OneAppendPerRun ==
    running => Len(ghostStore) <= Len(state.ghosts) + 1

\* C3: |velY| <= TERMINAL_VEL in every reachable state
C3_VelocityBounded ==
    Abs(state.bird.velY) <= TERMINAL_VEL * VScale

\* C3 witness: a tick has left the bird at terminal velocity
C3_Witness ==
    lastEvt.kind = "tick" /\ state.bird.velY = TERMINAL_VEL * VScale

\* the pipes of t that are passed and were in s, not passed
Flipped(s, t) ==
    {i \in 1..Len(t.pipes) :
        /\ t.pipes[i].passed
        /\ \E j \in 1..Len(s.pipes) :
               s.pipes[j].id = t.pipes[i].id /\ ~s.pipes[j].passed}

\* C4: no reducer lowers the score; a tick adds the number of pipes whose
\* passed flag went from false to true in it; flap and spawn leave the score
C4_ScoreCountsNewlyPassed ==
    [][ReducerStep =>
        /\ state'.score >= state.score
        /\ lastEvt'.kind = "tick" =>
               state'.score = state.score + Cardinality(Flipped(state, state'))
        /\ lastEvt'.kind # "tick" => state'.score = state.score]_vars

\* C4 witness: a tick has just scored the first pipe
C4_Witness ==
    /\ lastEvt.kind = "tick"
    /\ state.score = 1
    /\ \E i \in 1..Len(state.pipes) :
           /\ state.pipes[i].passed
           /\ state.pipes[i].x + PIPE_WIDTH * Scale + PipeDt
                  >= state.bird.pos.x - (WIDTH * Scale) \div 2

\* C5: no state holds a pipe with x <= -PIPE_WIDTH, so such a pipe is never
\* carried from one tick to the next
C5_OffscreenPipesCulled ==
    \A i \in 1..Len(state.pipes) : state.pipes[i].x > -(PIPE_WIDTH * Scale)

\* C5 witness: a tick has removed a pipe while the run goes on
C5_Witness ==
    /\ lastEvt.kind = "tick"
    /\ ~state.gameEnd
    /\ Len(state.pipes) < state.nextId - 1

\* C6: a tick of a live state takes exactly one life iff its collision
\* outcome has collided, lives is never negative, and a colliding tick at
\* lives = 1 ends the run with lives = 0
C6_LifePerCollision ==
    /\ [](state.lives >= 0)
    /\ [][LiveTick =>
            /\ state'.lives = state.lives -
                   (IF handleCollisions(state).collided THEN 1 ELSE 0)
            /\ (state.lives = 1 /\ handleCollisions(state).collided) =>
                   (state'.lives = 0 /\ state'.gameEnd)]_vars

\* C6 witness: a tick in which the bird hit the floor and the lower part of
\* a pipe at once has taken the last life
C6_Witness ==
    /\ lastEvt.kind = "tick"
    /\ state.lives = 0
    /\ state.gameEnd
    /\ state.bird.pos.y = maxY
    /\ \E i \in 1..Len(state.pipes) :
           overlaps(birdHitbox(state.bird.pos.x, maxY),
                    pipeBottomHitbox([state.pipes[i] EXCEPT !.x = @ + PipeDt]))

\* C7: after a tick of a live state, gameEnd holds iff no life is left or
\* every planned pipe was spawned and none is left in the list
C7_EndCondition ==
    [][LiveTick =>
        (state'.gameEnd <=>
            \/ state'.lives <= 0
            \/ /\ state.nextId - 1 >= state.totalPipesPlanned
               /\ Len(state'.pipes) = 0)]_vars

\* C7 witness: a run with pipes planned has ended by completion
C7_Witness ==
    /\ lastEvt.kind = "tick"
    /\ state.gameEnd
    /\ state.lives > 0
    /\ state.totalPipesPlanned > 0

\* C9: a run's ghosts are the store's content at its start, and no reducer
\* changes them, whatever is appended to the store meanwhile
C9_GhostsFrozenAtStart ==
    /\ [][lastEvt'.kind \in Starts => state'.ghosts = ghostStore]_vars
    /\ [][ReducerStep => state'.ghosts = state.ghosts]_vars

\* C9 witness: a run that began with a ghost has seen the store grow
C9_Witness ==
    /\ running
    /\ lastEvt.kind \in Reducers
    /\ state.ghosts # <<>>
    /\ Len(ghostStore) > Len(state.ghosts)

\* C10: a restart begins from a fresh initial state with the ghosts re-read
\* from the store, and no event of a superseded run is pending or applied
C10_RestartSupersedes ==
    /\ [](\A t \in timers : ~t.stale)
    /\ [](~lastEvt.stale)
    /\ [][lastEvt'.kind = "restart" =>
            /\ state'.timeMs = 0
            /\ state'.lives = 3
            /\ state'.score = 0
            /\ state'.pipes = <<>>
            /\ state'.nextId = 1
            /\ state'.trace = <<>>
            /\ ~state'.gameEnd
            /\ state'.ghosts = ghostStore
            /\ timers' = subscribeTimers]_vars

\* C10 witness: a restart has just superseded a run (begun by the click)
\* whose spawn timer had not yet fired
C10_Witness ==
    /\ lastEvt.kind = "restart"
    /\ clicked
    /\ schedule # <<>>
    /\ schedule[1].timeMs > (MaxStartClock + 1) * TICK_RATE_MS

\* the frame of the replay at the time of the state
FrameIdx == state.timeMs \div TICK_RATE_MS

\* C11: after render, a ghost whose trace has a point at index
\* floor(timeMs / TICK_RATE_MS) is shown at that point; any other ghost, one
\* with an empty trace included, is hidden, and hiding it does not move it
C11_GhostReplayIndex ==
    /\ [](lastEvt.kind \in Reducers \cup {"draw"} =>
            /\ Len(ghostImgs) >= Len(state.ghosts)
            /\ \A i \in 1..Len(state.ghosts) :
                   IF FrameIdx < Len(state.ghosts[i])
                   THEN /\ ghostImgs[i].visibility = "visible"
                        /\ ghostImgs[i].x + (WIDTH * Scale) \div 2
                               = state.ghosts[i][FrameIdx + 1].x
                        /\ ghostImgs[i].y + (HEIGHT * Scale) \div 2
                               = state.ghosts[i][FrameIdx + 1].y
                   ELSE ghostImgs[i].visibility = "hidden")
    /\ [][\A i \in 1..Len(ghostImgs) :
             (i <= Len(ghostImgs') /\ ghostImgs'[i].visibility = "hidden") =>
                 (ghostImgs'[i].x = ghostImgs[i].x
                      /\ ghostImgs'[i].y = ghostImgs[i].y)]_vars

\* C11 witness: one render, at a time that is not a multiple of the tick,
\* has shown a ghost at the second point of its trace, hidden a ghost whose
\* shorter trace is over, and another render a ghost with an empty trace
C11_Witness ==
    /\ lastEvt.kind = "draw"
    /\ state.timeMs % TICK_RATE_MS # 0
    /\ FrameIdx = 1
    /\ \E i, j \in 1..Len(state.ghosts) :
           /\ Len(state.ghosts[i]) = 2
           /\ ghostImgs[i].visibility = "visible"
           /\ Len(state.ghosts[j]) = 1
           /\ ghostImgs[j].visibility = "hidden"
           /\ ghostImgs[j].y + (HEIGHT * Scale) \div 2 = state.ghosts[j][1].y

\* C11 second case: a ghost with an empty trace is hidden at time 0
C11_EmptyTraceHidden ==
    /\ lastEvt.kind = "draw"
    /\ state.timeMs = 0
    /\ \E i \in 1..Len(state.ghosts) :
           state.ghosts[i] = <<>> /\ ghostImgs[i].visibility = "hidden"

\* the position the bird would take in a tick of s, before it is clamped
RawNextY(s) == s.bird.pos.y + FlightDt(clampVel(s.bird.velY + GravityDt))

\* the four collision conditions of a tick of s
Hits(s) ==
    hitTests(s, RawNextY(s),
             birdHitbox(s.bird.pos.x, Max(minY, Min(maxY, RawNextY(s)))))

\* the first condition that holds, in the order of the branches
Trigger(s) ==
    IF Hits(s).top THEN "top"
    ELSE IF Hits(s).bottom THEN "bottom"
    ELSE IF Hits(s).pipeTop THEN "pipeTop"
    ELSE IF Hits(s).pipeBottom THEN "pipeBottom"
    ELSE "none"

BounceRange == (BOUNCE_MIN * VScale)..(BOUNCE_MAX * VScale)

\* C12: the velocity after a tick that bounced has a magnitude within
\* [BOUNCE_MIN, BOUNCE_MAX], downward for a hit from above (top boundary,
\* upper pipe) and upward for a hit from below (bottom boundary, lower pipe);
\* a raw next position above minY gives collided, y = minY and velocity > 0
C12_BounceAwayFromSurface ==
    [][LiveTick =>
        /\ Trigger(state) \in {"top", "pipeTop"} =>
               state'.bird.velY \in BounceRange
        /\ Trigger(state) \in {"bottom", "pipeBottom"} =>
               -state'.bird.velY \in BounceRange
        /\ RawNextY(state) < minY =>
               /\ state'.lives = state.lives - 1
               /\ state'.bird.pos.y = minY
               /\ state'.bird.velY > 0]_vars

\* C12 witness: a tick has bounced the bird off the top boundary
C12_Witness ==
    /\ lastEvt.kind = "tick"
    /\ state.bird.pos.y = minY
    /\ state.bird.velY \in BounceRange
    /\ state.lives < 3

\* the clamped position of the bird in a tick of s
ClampedNextY(s) == Max(minY, Min(maxY, RawNextY(s)))

\* the magnitude drawn from the seed of s
Drawn(s) == randInRange(s.seed, BOUNCE_MIN, BOUNCE_MAX).value

\* C13: the position and velocity after a tick are those of the first
\* condition that holds in the order top boundary, bottom boundary, upper
\* pipe, lower pipe, whatever other conditions hold too; the tick counts as
\* collided (a life is taken) iff any of the four holds
C13_FirstConditionWins ==
    [][LiveTick =>
        /\ Trigger(state) = "top" =>
               /\ state'.bird.pos.y = minY
               /\ state'.bird.velY = Drawn(state)
        /\ Trigger(state) = "bottom" =>
               /\ state'.bird.pos.y = maxY
               /\ state'.bird.velY = -Drawn(state)
        /\ Trigger(state) = "pipeTop" =>
               /\ state'.bird.pos.y = Min(ClampedNextY(state) + Scale, maxY)
               /\ state'.bird.velY = Drawn(state)
        /\ Trigger(state) = "pipeBottom" =>
               /\ state'.bird.pos.y = Max(ClampedNextY(state) - Scale, minY)
               /\ state'.bird.velY = -Drawn(state)
        /\ state'.lives < state.lives <=>
               \/ Hits(state).top
               \/ Hits(state).bottom
               \/ Hits(state).pipeTop
               \/ Hits(state).pipeBottom]_vars

\* C13 witness: a tick in which the bird went through the top boundary while
\* over the lower part of a pipe has left it at minY, moving down
C13_Witness ==
    /\ lastEvt.kind = "tick"
    /\ state.bird.pos.y = minY
    /\ state.bird.velY \in BounceRange
    /\ \E i \in 1..Len(state.pipes) :
           overlaps(birdHitbox(state.bird.pos.x, minY),
                    pipeBottomHitbox([state.pipes[i] EXCEPT !.x = @ + PipeDt]))

\* the pipes of s whose upper (lower) part the bird overlaps in a tick of s
HitFromAbove(s) ==
    {i \in 1..Len(s.pipes) :
        overlaps(birdHitbox(s.bird.pos.x, ClampedNextY(s)),
                 pipeTopHitbox(s.pipes[i]))}
HitFromBelow(s) ==
    {i \in 1..Len(s.pipes) :
        overlaps(birdHitbox(s.bird.pos.x, ClampedNextY(s)),
                 pipeBottomHitbox(s.pipes[i]))}

\* C14: after a tick that hit the upper part of a pipe and no boundary, the
\* bird's top edge is at or below the upper edge of the gap of a pipe it hit
\* (the bird is at the edge or inside the gap, not inside the pipe); after a
\* hit of the lower part its bottom edge is at or above the lower gap edge
C14_SnappedToPipeEdge ==
    [][LiveTick =>
        /\ Trigger(state) = "pipeTop" =>
               \E i \in HitFromAbove(state) :
                   state'.bird.pos.y - (HEIGHT * Scale) \div 2
                       >= state.pipes[i].gapY - state.pipes[i].gapH \div 2
        /\ Trigger(state) = "pipeBottom" =>
               \E i \in HitFromBelow(state) :
                   state'.bird.pos.y + (HEIGHT * Scale) \div 2
                       <= state.pipes[i].gapY + state.pipes[i].gapH \div 2]_vars

\* C15: a tick of a live state in which a collision condition holds sets
\* the seed to hash(seed); every other reducer step (a tick without a
\* collision, a tick of an ended state, a flap, a spawn) leaves the seed
C15_SeedAdvancesOnDraw ==
    [][ReducerStep =>
        IF LiveTick /\ Trigger(state) # "none"
        THEN state'.seed = hash(state.seed)
        ELSE state'.seed = state.seed]_vars

\* C15 witness: the first collision of a run has advanced its seed once
C15_Witness ==
    /\ lastEvt.kind = "tick"
    /\ state.lives = 2
    /\ state.seed \notin Seeds
    /\ \E sd \in Seeds : state.seed = hash(sd)

\* the state s with the bird's velocity replaced by the flap velocity
WithFlapVel(s) == [s EXCEPT !.bird.velY = FLAP_VELOCITY * VScale]

\* C16: a flap changes bird.velY to FLAP_VELOCITY and nothing else; a
\* second flap changes nothing; a tick after a flap gives what a tick gives
\* from the state with velY = FLAP_VELOCITY
C16_FlapSetsVelocityOnly ==
    /\ [][lastEvt'.kind = "flap" => state' = WithFlapVel(state)]_vars
    /\ [][(lastEvt.kind = "flap" /\ lastEvt'.kind = "flap") =>
             state' = state]_vars
    /\ [](flapR(flapR(state)) = flapR(state))
    /\ [](tick(flapR(state)) = tick(WithFlapVel(state)))

\* C16 witness: a flap has been applied to a bird that is off its starting
\* height, in a run with a pipe on screen and a life lost
C16_Witness ==
    /\ lastEvt.kind = "flap"
    /\ ~state.gameEnd
    /\ state.bird.velY = FLAP_VELOCITY * VScale
    /\ state.bird.pos.y # (CANVAS_HEIGHT * Scale) \div 2
    /\ state.pipes # <<>>
    /\ state.lives < 3

\* the pipe a spawn of the row spec makes in the state s
Spawned(spec, s) ==
    [id |-> s.nextId,
     x |-> CANVAS_WIDTH * Scale,
     gapY |-> spec.gapY,
     gapH |-> spec.gapH,
     passed |-> FALSE]

\* C17: a spawn appends one pipe (id = nextId, x = CANVAS_WIDTH, the gap of
\* the row whose timer fired, not passed) at the end of the list, adds 1 to
\* nextId and changes no other field; no reducer changes totalPipesPlanned
C17_SpawnAppendsOnePipe ==
    /\ [][lastEvt'.kind = "spawn" =>
            \E t \in timers \ timers' :
                state' = [state EXCEPT
                             !.pipes = Append(state.pipes,
                                              Spawned(schedule[t.idx], state)),
                             !.nextId = state.nextId + 1]]_vars
    /\ [][ReducerStep =>
            state'.totalPipesPlanned = state.totalPipesPlanned]_vars

\* C17 witness: the second row of the schedule has been spawned behind the
\* first pipe, which is still on screen
C17_Witness ==
    /\ lastEvt.kind = "spawn"
    /\ ~state.gameEnd
    /\ Len(state.pipes) = 2
    /\ state.pipes[2].id = 2
    /\ state.pipes[2].x = CANVAS_WIDTH * Scale
    /\ state.pipes[1].x < CANVAS_WIDTH * Scale
    /\ state.nextId = 3
    /\ state.totalPipesPlanned = 2

\* the ids of the pipes of s
PipeIds(s) == {s.pipes[i].id : i \in 1..Len(s.pipes)}

\* C18: the pipes of a state have pairwise distinct ids, all below nextId;
\* no reducer lowers nextId and a spawn raises it; a pipe that enters the
\* list gets an id that no pipe of the run had before (an id at or above the
\* nextId of the state it enters), also when earlier pipes were culled
C18_IdsNeverReused ==
    /\ [](/\ Cardinality(PipeIds(state)) = Len(state.pipes)
          /\ \A id \in PipeIds(state) : id < state.nextId)
    /\ [][ReducerStep => state'.nextId >= state.nextId]_vars
    /\ [][lastEvt'.kind = "spawn" => state'.nextId > state.nextId]_vars
    /\ [][ReducerStep =>
            \A id \in PipeIds(state') \ PipeIds(state) :
                id >= state.nextId]_vars

\* C18 witness: a pipe has been spawned after the only earlier pipe was
\* culled; it has the next id, not the id of the culled pipe
C18_Witness ==
    /\ lastEvt.kind = "spawn"
    /\ Len(state.pipes) = 1
    /\ state.pipes[1].id = 2
    /\ state.nextId = 3

\* every pipe that is in s and in t is further left in t
MovedLeft(s, t) ==
    \A i \in 1..Len(s.pipes), j \in 1..Len(t.pipes) :
        s.pipes[i].id = t.pipes[j].id => t.pipes[j].x < s.pipes[i].x

\* C19 as stated: every application of tick moves each pipe it keeps to a
\* strictly smaller x
C19_PipesMoveLeftEveryTick ==
    [][lastEvt'.kind = "tick" => MovedLeft(state, state')]_vars

\* C19 amended: a tick of a state that has not ended moves each pipe it
\* keeps to a strictly smaller x
C19_PipesMoveLeftWhileLive ==
    [][LiveTick => MovedLeft(state, state')]_vars

\* C19 witness: a tick has moved a pipe that stays on screen, the run going on
C19_Witness ==
    /\ lastEvt.kind = "tick"
    /\ ~state.gameEnd
    /\ state.pipes # <<>>
    /\ state.pipes[1].x = CANVAS_WIDTH * Scale - 3 * PipeDt

\* the left edge of the bird of s
BirdLeft(s) == s.bird.pos.x - (WIDTH * Scale) \div 2

\* C20: no reducer resets the passed flag of a pipe it keeps; after a tick
\* of a live state a kept pipe is passed iff it was passed before or its
\* right edge, after the move, is strictly left of the bird's left edge
C20_PassedMonotone ==
    /\ [][ReducerStep =>
            \A i \in 1..Len(state.pipes), j \in 1..Len(state'.pipes) :
                (state.pipes[i].id = state'.pipes[j].id
                    /\ state.pipes[i].passed) => state'.pipes[j].passed]_vars
    /\ [][LiveTick =>
            \A i \in 1..Len(state.pipes), j \in 1..Len(state'.pipes) :
                state.pipes[i].id = state'.pipes[j].id =>
                    (state'.pipes[j].passed <=>
                        \/ state.pipes[i].passed
                        \/ state'.pipes[j].x + PIPE_WIDTH * Scale
                               < BirdLeft(state))]_vars

\* C20 witness: a pipe is passed since the last tick and stays on screen
\* while a second pipe, further right, is not passed
C20_Witness ==
    /\ lastEvt.kind = "tick"
    /\ ~state.gameEnd
    /\ Len(state.pipes) = 2
    /\ state.pipes[1].passed
    /\ state.pipes[1].x + PIPE_WIDTH * Scale + PipeDt >= BirdLeft(state)
    /\ ~state.pipes[2].passed

\* C21: the bird's y is within [HEIGHT / 2, CANVAS_HEIGHT - HEIGHT / 2] in
\* every state, also after the one-pixel nudge of a pipe hit, and the bird's
\* x is its initial value: no reducer changes it
C21_BirdStaysOnScreen ==
    /\ [](state.bird.pos.y >= minY /\ state.bird.pos.y <= maxY)
    /\ [](state.bird.pos.x = (CANVAS_WIDTH * Scale * 3) \div 10)
    /\ [][ReducerStep => state'.bird.pos.x = state.bird.pos.x]_vars

\* C21 witness: a tick has hit the lower part of a pipe less than a pixel
\* under the ceiling; the nudge up stopped at minY
C21_Witness ==
    /\ lastEvt.kind = "tick"
    /\ state.bird.pos.y = minY
    /\ -state.bird.velY \in BounceRange

\* C22: the trace has one entry per tick of the clock of the run
\* (timeMs / TICK_RATE_MS); a live tick appends one entry, any other reducer
\* step none; entries once written stay; the last entry is the bird's position
C22_TraceFollowsTicks ==
    /\ [](Len(state.trace) * TICK_RATE_MS = state.timeMs)
    /\ [](state.trace # <<>> =>
              state.trace[Len(state.trace)] = state.bird.pos)
    /\ [][ReducerStep =>
            /\ Len(state'.trace) =
                   Len(state.trace) + (IF LiveTick THEN 1 ELSE 0)
            /\ SubSeq(state'.trace, 1, Len(state.trace)) = state.trace]_vars

\* C22 witness: a flap has followed a tick that moved the bird and took a
\* life; the trace ends with the bird's position, its entries differ
C22_Witness ==
    /\ lastEvt.kind = "flap"
    /\ ~state.gameEnd
    /\ state.lives < 3
    /\ Len(state.trace) >= 2
    /\ state.trace[Len(state.trace)] = state.bird.pos
    /\ state.trace[Len(state.trace)] # state.trace[Len(state.trace) - 1]

\* C23: a run that is not restarted, whose ticks keep coming and whose spawn
\* timers all fire, reaches gameEnd
C23_RunEnds == running ~> state.gameEnd

\* C23 witness: a run has ended with lives left, after both pipes of its
\* schedule were spawned and culled
C23_Witness ==
    /\ lastEvt.kind = "tick"
    /\ state.gameEnd
    /\ state.lives > 0
    /\ state.totalPipesPlanned = 2
    /\ state.nextId = 3
    /\ state.pipes = <<>>
    /\ timers = {}

\* C24: a reducer applied to an ended state gives an ended state with the
\* same timeMs, lives, score, trace, seed and bird position; so these stay,
\* from the end of a run on, whatever ticks, flaps and spawns follow
C24_EndIsStable ==
    [][(state.gameEnd /\ ReducerStep) =>
        /\ state'.gameEnd
        /\ state'.timeMs = state.timeMs
        /\ state'.lives = state.lives
        /\ state'.score = state.score
        /\ state'.trace = state.trace
        /\ state'.seed = state.seed
        /\ state'.bird.pos = state.bird.pos]_vars

\* C24 witness: a run ended with no life left and pipes on screen; a tick
\* and then a flap were applied to the ended state
C24_Witness ==
    /\ lastEvt.kind = "flap"
    /\ state.gameEnd
    /\ state.lives = 0
    /\ state.pipes # <<>>
    /\ state.bird.velY = FLAP_VELOCITY * VScale
    /\ clock * TICK_RATE_MS > state.timeMs

=============================================================================
